---- MODULE Spec2Model ----
(***************************************************************************)
(* Smart Email Reminder: the pipeline from fetched messages to Events.     *)
(*                                                                         *)
(* Two pipelines of the repository are modelled:                           *)
(*   "dash": app.py, show_scan_page -> find_actionable_events (app.py),    *)
(*           then deduplication and ranking of the accumulated Events;     *)
(*   "cli":  main.py, run_reminder_workflow -> find_actionable_events      *)
(*           (intelligence_module.py), Events handled per message.         *)
(*                                                                         *)
(* Time is counted in ticks, DayLen ticks to a calendar day.  The wall     *)
(* clock (datetime.now()) is the variable clock; it moves on its own       *)
(* between the steps of a scan.  spaCy and dateparser are libraries: the   *)
(* spans spaCy recognises are inputs drawn per step, and dateparser.parse  *)
(* is the table Resolve below.                                             *)
(*                                                                         *)
(* The functions the pipelines call on one value at a time have their own  *)
(* specifications over the same variables: SpecParse (parse_raw_email of   *)
(* email_parser.py and of app.py), SpecExtract (the label test of the walk *)
(* of doc.ents), SpecContext (the context window of a span) and SpecFormat *)
(* (notifier.format_event_notification).                                   *)
(*                                                                         *)
(* What surrounds the pipelines has its own specifications too:            *)
(* SpecWorkflow (one run of main.run_reminder_workflow, one step per       *)
(* message), SpecCalls (send_desktop_notification, search_emails,          *)
(* get_raw_email and send_email_notification called on their own),         *)
(* SpecSession (the pages and buttons of the dashboard) and SpecSchedule   *)
(* (the process of main.py and its schedule; SpecScheduleFair adds the     *)
(* fairness of its polling loop).                                          *)
(***************************************************************************)
EXTENDS Integers, Sequences, FiniteSets, TLC

\* ---------------------------------------------------------------- bounds
\* messages a search returns
MaxMsgs == 2
\* DATE/TIME/EVENT spans spaCy recognises over one scan
MaxEnts == 2
\* ticks the wall clock advances during one scan
MaxTicks == 2
\* ticks to a calendar day
DayLen == 2

Now0 == 10 * DayLen

\* ---------------------------------------------------------------- inputs
Labels == {"DATE", "TIME", "EVENT", "PERSON"}
Texts == {"asap", "3 PM EST", "today", "Oct 17", "Oct 20 noon", "Oct 22", "Oct 28"}
Entity == [text : Texts, label : Labels]
Subjects == {"", "Re: report"}
Bodies == {"", "text"}

\* dateparser.parse(text), read at wall-clock time now: nothing, a zone-naive
\* instant or a zone-aware instant.  "today" is relative to now; the dated
\* texts are absolute.
NoDate == [ok |-> FALSE, at |-> 0, aware |-> FALSE]
Naive(t) == [ok |-> TRUE, at |-> t, aware |-> FALSE]
Aware(t) == [ok |-> TRUE, at |-> t, aware |-> TRUE]
Resolve(text, now) ==
    CASE text = "asap"        -> NoDate
      [] text = "3 PM EST"    -> Aware(Now0 + 1)
      [] text = "today"       -> Naive(now)
      [] text = "Oct 17"      -> Naive(Now0 - 3 * DayLen)
      [] text = "Oct 20 noon" -> Naive(Now0 + 1)
      [] text = "Oct 22"      -> Naive(Now0 + 2 * DayLen)
      [] text = "Oct 28"      -> Naive(Now0 + 8 * DayLen)

\* ------------------------------------------------- app.py: classification
\* (parsed_date - datetime.now()).days : timedelta.days is the floor.
DaysUntil(parsed_date, now) == (parsed_date - now) \div DayLen

\* variant: the urgent bucket closed at 0 instead of 1
Urgency_lt1(days_until) ==
    IF days_until < 0 THEN "overdue"
    ELSE IF days_until < 1 THEN "urgent"
    ELSE IF days_until <= 7 THEN "soon"
    ELSE "upcoming"

Urgency(days_until) ==
    IF days_until < 0 THEN "overdue"
    ELSE IF days_until <= 1 THEN "urgent"
    ELSE IF days_until <= 7 THEN "soon"
    ELSE "upcoming"

UrgencyColor(days_until) ==
    IF days_until < 0 THEN "urgent"
    ELSE IF days_until <= 1 THEN "urgent"
    ELSE IF days_until <= 7 THEN "medium"
    ELSE "low"

\* the dict appended at app.py:432 (context and formatted_date are left out:
\* no step of the scan reads them), before the caller adds email_subject
MkEvent(text, parsed_date, now) ==
    [original_text |-> text,
     parsed_date   |-> parsed_date,
     days_until    |-> DaysUntil(parsed_date, now),
     urgency       |-> Urgency(DaysUntil(parsed_date, now)),
     urgency_color |-> UrgencyColor(DaysUntil(parsed_date, now))]

\* parsed_date.date()
DateOf(parsed_date) == parsed_date \div DayLen

\* ------------------------------------ app.py:442  events.sort(key=parsed_date)
\* list.sort is stable: an element goes after every element whose key is not
\* greater than its own.
InsertByDate(sorted, e) ==
    LET k == Cardinality({i \in 1..Len(sorted) : sorted[i].parsed_date <= e.parsed_date})
    IN  SubSeq(sorted, 1, k) \o <<e>> \o SubSeq(sorted, k + 1, Len(sorted))

RECURSIVE SortByDate(_)
SortByDate(s) ==
    IF s = <<>> THEN <<>>
    ELSE InsertByDate(SortByDate(SubSeq(s, 1, Len(s) - 1)), s[Len(s)])

\* ----------------------------------------- app.py:912-918  deduplication
\* variant: the key built from parsed_date itself, not its date()
DedupKey_instant(event) == <<event.original_text, event.parsed_date>>

DedupKey(event) == <<event.original_text, DateOf(event.parsed_date)>>

\* variant: unique_events.insert(0, event) instead of append
DedupStep_prepend(st, event) ==
    IF DedupKey(event) \notin st.seen
    THEN [seen |-> st.seen \cup {DedupKey(event)},
          unique_events |-> <<event>> \o st.unique_events]
    ELSE st

\* one iteration of "for event in all_events"
DedupStep(st, event) ==
    IF DedupKey(event) \notin st.seen
    THEN [seen |-> st.seen \cup {DedupKey(event)},
          unique_events |-> Append(st.unique_events, event)]
    ELSE st

RECURSIVE DedupLoop(_, _)
DedupLoop(events_in, n) ==
    IF n = 0 THEN [seen |-> {}, unique_events |-> <<>>]
    ELSE DedupStep(DedupLoop(events_in, n - 1), events_in[n])

Dedup(events_in) == DedupLoop(events_in, Len(events_in)).unique_events

\* ------------------------------------------------ app.py:920-921  ranking
UrgencyOrder(urgency_color) ==
    CASE urgency_color = "urgent" -> 0
      [] urgency_color = "medium" -> 1
      [] urgency_color = "low"    -> 2
      [] OTHER                    -> 3

\* variant: the sort key without parsed_date
RankLeq_severityOnly(a, b) == UrgencyOrder(a.urgency_color) <= UrgencyOrder(b.urgency_color)

\* tuple comparison of the sort key (urgency_order, parsed_date)
RankLeq(a, b) ==
    \/ UrgencyOrder(a.urgency_color) < UrgencyOrder(b.urgency_color)
    \/ /\ UrgencyOrder(a.urgency_color) = UrgencyOrder(b.urgency_color)
       /\ a.parsed_date <= b.parsed_date

\* variant: an unstable sort, equal keys placed before their elders
InsertRanked_unstable(sorted, e) ==
    LET k == Cardinality({i \in 1..Len(sorted) : RankLeq(sorted[i], e) /\ ~RankLeq(e, sorted[i])})
    IN  SubSeq(sorted, 1, k) \o <<e>> \o SubSeq(sorted, k + 1, Len(sorted))

InsertRanked(sorted, e) ==
    LET k == Cardinality({i \in 1..Len(sorted) : RankLeq(sorted[i], e)})
    IN  SubSeq(sorted, 1, k) \o <<e>> \o SubSeq(sorted, k + 1, Len(sorted))

RECURSIVE RankSort(_)
RankSort(s) ==
    IF s = <<>> THEN <<>>
    ELSE InsertRanked(RankSort(SubSeq(s, 1, Len(s) - 1)), s[Len(s)])

\* ------------------------------------------------------------------ state
VARIABLES
    clock,             \* datetime.now(), in ticks
    mode,              \* "dash" (app.py) or "cli" (main.py)
    pc,                \* position of the scan
    msgs_left,         \* messages of the search result not yet attempted
    subject,           \* parsed['subject'] of the message being analysed
    n_cands,           \* DATE/TIME/EVENT spans recognised so far in the scan
    cands,             \* app.py: texts of the candidate spans of this message
    potential_events,  \* intelligence_module: entity_text of potential_events
    events,            \* find_actionable_events: events / actionable_events
    all_events,        \* show_scan_page: all_events
    session_events,    \* st.session_state.events
    scan_complete,     \* st.session_state.scan_complete
    current_time,      \* intelligence_module: current_time
    idx,               \* intelligence_module: position in potential_events
    total_events_found,\* main.py: total_events_found
    processed_emails,  \* main.py: processed_emails
    last_run,          \* the previous find_actionable_events call of the
                       \* scan: its candidates and the list it returned
    call,              \* how the current find_actionable_events call went:
                       \* "blank" text, NER "unavailable", NER "raises", "ok"
    notified,          \* main.py: events formatted and delivered in this run
    raw_email,         \* parse_raw_email: its argument
    parser,            \* which parse_raw_email: "email_parser" or "app"
    parsed,            \* parse_raw_email: its outcome
    event,             \* format_event_notification: its argument event
    email_subject,     \* format_event_notification: its argument email_subject
    notification,      \* format_event_notification: its outcome
    pipeline,          \* which find_actionable_events walks doc.ents
    doc_ents,          \* labels of the spans of doc.ents walked so far
    candidates,        \* positions in doc_ents of the spans taken as candidates
    span,              \* one span of a document: its tokens and the document's
    window,            \* the context window computed for span
    inbox,             \* the mailbox: the messages that match the query
    messages,          \* main.py: messages, the ids search_emails returned
    msg_i,             \* main.py: i, the position of the loop in messages
    attempted,         \* per iteration entered: the id and how it went
    delivered,         \* the notifications sent, in the order sent
    wf,                \* run_reminder_workflow: where the run stands
    callee,            \* the function called on its own, "none" when none is
    args,              \* its arguments and how what it relies on behaves
    result,            \* its outcome: a value returned or an exception
    effects,           \* the outside calls it made, in order
    told,              \* main.py:120-130: the branch taken on success
    page,              \* st.session_state.page
    authenticated,     \* st.session_state.authenticated
    service,           \* st.session_state.service
    signed_in,         \* an authentication has succeeded and no logout followed
    logins,            \* authentications that have succeeded so far
    scan_login,        \* the value of logins when the last scan completed
    did,               \* the mailbox call of the last button press, if any
    proc,              \* the main.py process: "start", "run", "sleep" or "exited"
    exit_status,       \* its exit status once it has exited, else -1
    once,              \* sys.argv[1] == "--once"
    runs,              \* run_reminder_workflow calls started so far
    last,              \* how the last run ended
    mailbox,           \* ids of the messages that match the query now
    sent,              \* per message: notifications sent for its event
    matched            \* per message: runs that found it and analysed it

vars == <<clock, mode, pc, msgs_left, subject, n_cands, cands, potential_events,
          events, all_events,
          session_events, scan_complete, current_time, idx,
          total_events_found, processed_emails, last_run, call, notified,
          raw_email, parser, parsed, event, email_subject, notification,
          pipeline, doc_ents, candidates, span, window,
          inbox, messages, msg_i, attempted, delivered, wf,
          callee, args, result, effects, told,
          page, authenticated, service, signed_in, logins, scan_login, did,
          proc, exit_status, once, runs, last, mailbox, sent, matched>>

scanVars == <<clock, mode, pc, msgs_left, subject, n_cands, cands, potential_events,
              events, all_events, session_events, scan_complete, current_time, idx,
              total_events_found, processed_emails, last_run, call, notified>>
parseVars == <<raw_email, parser, parsed>>
formatVars == <<event, email_subject, notification>>
extractVars == <<pipeline, doc_ents, candidates>>
contextVars == <<span, window>>
wfVars == <<inbox, messages, msg_i, attempted, delivered, wf>>
callVars == <<callee, args, result, effects, told>>
sessVars == <<page, authenticated, service, signed_in, logins, scan_login, did>>
schedVars == <<proc, exit_status, once, runs, last, mailbox, sent, matched>>
lateVars == <<wfVars, callVars, sessVars, schedVars>>
auxVars == <<parseVars, formatVars, extractVars, contextVars, lateVars>>

dashVars == <<all_events, session_events, scan_complete, cands>>
cliVars == <<current_time, idx, total_events_found, processed_emails, potential_events,
            notified>>

NoRun == [called |-> FALSE, cands |-> <<>>, events |-> <<>>]

\* nothing parsed, formatted or extracted outside a scan
None == [kind |-> "none"]
ParseIdle == raw_email = None /\ parser = "none" /\ parsed = None
FormatIdle == event = None /\ email_subject = "" /\ notification = None
ExtractIdle == pipeline = "none" /\ doc_ents = <<>> /\ candidates = <<>>
ContextIdle == span = None /\ window = None
WorkflowIdle ==
    /\ inbox = <<>> /\ messages = <<>> /\ msg_i = 1
    /\ attempted = <<>> /\ delivered = <<>> /\ wf = "none"
CallIdle ==
    /\ callee = "none" /\ args = None /\ result = None
    /\ effects = <<>> /\ told = "none"
SessionIdle ==
    /\ page = "none" /\ authenticated = FALSE /\ service = "None"
    /\ signed_in = FALSE /\ logins = 0 /\ scan_login = 0 /\ did = "none"
ScheduleIdle ==
    /\ proc = "none" /\ exit_status = -1 /\ once = FALSE /\ runs = 0
    /\ last = "none" /\ mailbox = {} /\ sent = <<>> /\ matched = <<>>
LateIdle == WorkflowIdle /\ CallIdle /\ SessionIdle /\ ScheduleIdle

ScanInit ==
    /\ clock = Now0
    /\ mode = "none"
    /\ pc = "idle"
    /\ msgs_left = 0
    /\ subject = ""
    /\ n_cands = 0
    /\ cands = <<>>
    /\ potential_events = <<>>
    /\ events = <<>>
    /\ all_events = <<>>
    /\ session_events = <<>>
    /\ scan_complete = FALSE
    /\ current_time = Now0
    /\ idx = 1
    /\ total_events_found = 0
    /\ processed_emails = 0
    /\ last_run = NoRun
    /\ call = "none"
    /\ notified = 0

Init == ScanInit /\ ParseIdle /\ FormatIdle /\ ExtractIdle /\ ContextIdle /\ LateIdle

\* the wall clock moves between any two steps
Tick ==
    /\ pc \notin {"idle", "done"}
    /\ clock < Now0 + MaxTicks
    /\ clock' = clock + 1
    /\ UNCHANGED <<call, mode, pc, msgs_left, subject, n_cands, events, last_run>>
    /\ UNCHANGED dashVars
    /\ UNCHANGED cliVars
    /\ UNCHANGED auxVars

\* where the message loop goes after one message
AfterMessage(left) == IF left = 0 THEN "rank" ELSE "fetch"

\* ------------------------------------------------- app.py: show_scan_page
\* "Start Scanning": search_emails returns n message ids (app.py:885-895)
DashSearch ==
    /\ pc = "idle"
    /\ \E n \in 0..MaxMsgs :
         /\ msgs_left' = n
         /\ IF n = 0
            THEN /\ session_events' = <<>>
                 /\ pc' = "done"
            ELSE /\ session_events' = session_events
                 /\ pc' = "fetch"
    /\ mode' = "dash"
    /\ all_events' = <<>>
    /\ call' = "none"
    /\ UNCHANGED <<clock, subject, n_cands, cands, events, scan_complete, last_run>>
    /\ UNCHANGED cliVars
    /\ UNCHANGED auxVars

\* the NER capability during one call: spacy.load succeeds and nlp(text)
\* returns a doc, spacy.load raises OSError, or nlp(text) raises
NlpStates == {"ok", "unavailable", "raises"}

\* full_text = f"{subject} {body}" is blank exactly when both are empty;
\* the blank test comes before the NER capability is touched
\* (app.py:902, 396-397)
DashCall(subj, body, nlp) == IF subj = "" /\ body = "" THEN "blank" ELSE nlp

\* a variant that lets an exception of nlp(text) leave the function
DashPcAfterCall_uncaught(c) ==
    IF c = "ok" THEN "ents" ELSE IF c = "raises" THEN "raised" ELSE "ret"

\* a variant without the blank test of app.py:396
DashPcAfterCall_noBlankTest(c) ==
    IF c \in {"ok", "blank"} THEN "ents" ELSE "ret"

\* "return []" for blank text (app.py:396-397), for a spaCy model that does
\* not load (app.py:399-402) and for any exception of nlp(text), which the
\* except of app.py:444-445 catches; otherwise the walk of doc.ents starts
DashPcAfterCall(c) == IF c = "ok" THEN "ents" ELSE "ret"

\* one iteration of "for i, msg in enumerate(messages)" up to the call of
\* find_actionable_events and that function's first lines (app.py:897-902,
\* 394-405)
DashFetch ==
    /\ pc = "fetch" /\ mode = "dash"
    /\ \E raw_ok \in BOOLEAN, subj \in Subjects, body \in Bodies, nlp \in NlpStates :
         /\ cands' = <<>>
         /\ events' = <<>>
         /\ IF ~raw_ok
            THEN /\ msgs_left' = msgs_left - 1
                 /\ pc' = AfterMessage(msgs_left - 1)
                 /\ subject' = subject
                 /\ call' = "none"
            ELSE /\ msgs_left' = msgs_left
                 /\ call' = DashCall(subj, body, nlp)
                 /\ pc' = DashPcAfterCall(DashCall(subj, body, nlp))
                 /\ subject' = subj
    /\ UNCHANGED <<clock, mode, n_cands, all_events, session_events, scan_complete,
                   last_run>>
    /\ UNCHANGED cliVars
    /\ UNCHANGED auxVars

\* the labels a span must carry to be taken as a candidate: app.py:409 for
\* the dashboard, intelligence_module.py:48 for the command-line workflow
CandidateLabels(p) ==
    IF p = "dash" THEN {"DATE", "TIME", "EVENT"} ELSE {"DATE", "TIME"}

\* one iteration of "for ent in doc.ents" (app.py:408-440); a zone-aware
\* parsed_date makes parsed_date - datetime.now() raise TypeError, which
\* the except of app.py:444 turns into "return []"
DashEntity ==
    /\ pc = "ents" /\ mode = "dash"
    /\ n_cands < MaxEnts
    /\ \E ent \in Entity :
         LET parsed_date == Resolve(ent.text, clock) IN
         IF ent.label \notin CandidateLabels("dash")
         THEN UNCHANGED <<n_cands, cands, events, pc>>
         ELSE /\ n_cands' = n_cands + 1
              /\ cands' = Append(cands, ent.text)
              /\ IF ~parsed_date.ok
                 THEN UNCHANGED <<events, pc>>
                 ELSE IF parsed_date.aware
                 THEN /\ events' = <<>>
                      /\ pc' = "ret"
                 ELSE /\ events' = Append(events, MkEvent(ent.text, parsed_date.at, clock))
                      /\ pc' = pc
    /\ UNCHANGED <<clock, call, mode, msgs_left, subject, all_events, session_events,
                   scan_complete, last_run>>
    /\ UNCHANGED cliVars
    /\ UNCHANGED auxVars

\* end of doc.ents: events.sort(key=parsed_date); return events (app.py:442)
DashReturn ==
    /\ pc = "ents" /\ mode = "dash"
    /\ events' = SortByDate(events)
    /\ pc' = "ret"
    /\ UNCHANGED <<clock, call, mode, msgs_left, subject, n_cands, cands, all_events,
                   session_events, scan_complete, last_run>>
    /\ UNCHANGED cliVars
    /\ UNCHANGED auxVars

\* event['email_subject'] = ...; all_events.extend(events) (app.py:904-910)
Tagged(evs, subj) ==
    [i \in 1..Len(evs) |->
        [original_text |-> evs[i].original_text,
         parsed_date   |-> evs[i].parsed_date,
         days_until    |-> evs[i].days_until,
         urgency       |-> evs[i].urgency,
         urgency_color |-> evs[i].urgency_color,
         email_subject |-> subj]]

DashCollect ==
    /\ pc = "ret" /\ mode = "dash"
    /\ all_events' = all_events \o Tagged(events, subject)
    /\ last_run' = [called |-> TRUE, cands |-> cands, events |-> events]
    /\ msgs_left' = msgs_left - 1
    /\ pc' = AfterMessage(msgs_left - 1)
    /\ cands' = <<>>
    /\ events' = <<>>
    /\ subject' = ""
    /\ call' = "none"
    /\ UNCHANGED <<clock, mode, n_cands, session_events, scan_complete>>
    /\ UNCHANGED cliVars
    /\ UNCHANGED auxVars

\* deduplicate, rank, publish (app.py:912-924)
DashRank ==
    /\ pc = "rank" /\ mode = "dash"
    /\ session_events' = RankSort(Dedup(all_events))
    /\ scan_complete' = TRUE
    /\ pc' = "done"
    /\ UNCHANGED <<clock, call, mode, msgs_left, subject, n_cands, cands, events, all_events,
                   last_run>>
    /\ UNCHANGED cliVars
    /\ UNCHANGED auxVars

\* ------------------------------------------ main.py: run_reminder_workflow
\* get_gmail_service, search_emails, the two early returns (main.py:48-73)
CliSearch ==
    /\ pc = "idle"
    /\ \E auth_ok \in BOOLEAN, n \in 0..MaxMsgs :
         /\ msgs_left' = IF auth_ok THEN n ELSE 0
         /\ pc' = IF auth_ok /\ n > 0 THEN "fetch" ELSE "done"
    /\ mode' = "cli"
    /\ total_events_found' = 0
    /\ processed_emails' = 0
    /\ notified' = 0
    /\ call' = "none"
    /\ UNCHANGED <<clock, subject, n_cands, events, current_time, idx,
                   potential_events, last_run>>
    /\ UNCHANGED dashVars
    /\ UNCHANGED auxVars

CliAfterMessage(left) == IF left = 0 THEN "done" ELSE "fetch"

\* one iteration of "for i, message in enumerate(messages, 1)" up to the
\* call of find_actionable_events (intelligence_module) and its loading of
\* the spaCy model (main.py:76-101, intelligence_module.py:33-41)
\* "return []" when spacy.load or nlp(text) raises: both are inside the try
\* whose handlers are intelligence_module.py:101-107
CliPcAfterCall(c) == IF c = "ok" THEN "ner" ELSE "ret"

\* a message whose body is empty is skipped by the "continue" of main.py:89-91
\* before anything is extracted; call records "blank" when its subject is
\* empty too
CliFetch ==
    /\ pc = "fetch" /\ mode = "cli"
    /\ \E raw_ok \in BOOLEAN, subj \in Subjects, body \in Bodies, nlp \in NlpStates :
         /\ potential_events' = <<>>
         /\ events' = <<>>
         /\ IF ~raw_ok \/ body = ""
            THEN /\ msgs_left' = msgs_left - 1
                 /\ pc' = CliAfterMessage(msgs_left - 1)
                 /\ subject' = subject
                 /\ call' = IF raw_ok /\ subj = "" THEN "blank" ELSE "none"
            ELSE /\ msgs_left' = msgs_left
                 /\ call' = nlp
                 /\ pc' = CliPcAfterCall(nlp)
                 /\ subject' = subj
    /\ UNCHANGED <<clock, mode, n_cands, current_time, idx, total_events_found,
                   processed_emails, notified, last_run>>
    /\ UNCHANGED dashVars
    /\ UNCHANGED auxVars

\* one iteration of the first "for ent in doc.ents" (intelligence_module.py:47-66)
CliEntity ==
    /\ pc = "ner" /\ mode = "cli"
    /\ n_cands < MaxEnts
    /\ \E ent \in Entity :
         IF ent.label \notin CandidateLabels("cli")
         THEN UNCHANGED <<n_cands, potential_events>>
         ELSE /\ n_cands' = n_cands + 1
              /\ potential_events' = Append(potential_events, ent.text)
    /\ UNCHANGED <<clock, call, notified, mode, pc, msgs_left, subject, events, current_time, idx,
                   total_events_found, processed_emails, last_run>>
    /\ UNCHANGED dashVars
    /\ UNCHANGED auxVars

\* actionable_events = []; current_time = datetime.now() (intelligence_module.py:69-70)
CliEndNer ==
    /\ pc = "ner" /\ mode = "cli"
    /\ current_time' = clock
    /\ idx' = 1
    /\ events' = <<>>
    /\ pc' = "resolve"
    /\ UNCHANGED <<clock, call, notified, mode, msgs_left, subject, n_cands, potential_events,
                   total_events_found, processed_emails, last_run>>
    /\ UNCHANGED dashVars
    /\ UNCHANGED auxVars

\* the test of intelligence_module.py:81-83; a zone-aware parsed_datetime
\* makes "parsed_datetime > current_time" raise TypeError
Accepted(parsed_datetime, now) ==
    /\ parsed_datetime.ok
    /\ ~parsed_datetime.aware
    /\ parsed_datetime.at > now

\* one iteration of "for event in potential_events" (intelligence_module.py:72-97);
\* event_context and entity_label of the appended dict are left out: no step
\* of the workflow reads them
CliResolve ==
    /\ pc = "resolve" /\ mode = "cli"
    /\ idx <= Len(potential_events)
    /\ LET entity_text == potential_events[idx]
           parsed_datetime == Resolve(entity_text, clock)
       IN  events' = IF Accepted(parsed_datetime, current_time)
                     THEN Append(events, [original_text |-> entity_text,
                                          datetime      |-> parsed_datetime.at])
                     ELSE events
    /\ idx' = idx + 1
    /\ UNCHANGED <<clock, call, notified, mode, pc, msgs_left, subject, n_cands, potential_events,
                   current_time, total_events_found, processed_emails, last_run>>
    /\ UNCHANGED dashVars
    /\ UNCHANGED auxVars

\* return actionable_events (intelligence_module.py:99)
CliReturn ==
    /\ pc = "resolve" /\ mode = "cli"
    /\ idx > Len(potential_events)
    /\ pc' = "ret"
    /\ UNCHANGED <<clock, call, notified, mode, msgs_left, subject, n_cands, potential_events, events,
                   current_time, idx, total_events_found, processed_emails, last_run>>
    /\ UNCHANGED dashVars
    /\ UNCHANGED auxVars

\* what main.py does with the list returned for one message: each event is
\* formatted and delivered (main.py:108-118) and the counters move
\* (main.py:103-105, 154)
CliCollect ==
    /\ pc = "ret" /\ mode = "cli"
    /\ total_events_found' = total_events_found + Len(events)
    /\ processed_emails' = processed_emails + 1
    /\ last_run' = [called |-> TRUE, cands |-> potential_events, events |-> events]
    /\ msgs_left' = msgs_left - 1
    /\ pc' = CliAfterMessage(msgs_left - 1)
    /\ potential_events' = <<>>
    /\ events' = <<>>
    /\ subject' = ""
    /\ call' = "none"
    /\ notified' = notified + Len(events)
    /\ idx' = 1
    /\ current_time' = Now0
    /\ UNCHANGED <<clock, mode, n_cands>>
    /\ UNCHANGED dashVars
    /\ UNCHANGED auxVars

Next ==
    \/ Tick
    \/ DashSearch
    \/ DashFetch
    \/ DashEntity
    \/ DashReturn
    \/ DashCollect
    \/ DashRank
    \/ CliSearch
    \/ CliFetch
    \/ CliEntity
    \/ CliEndNer
    \/ CliResolve
    \/ CliReturn
    \/ CliCollect

Spec == Init /\ [][Next]_vars

\* ============================================ parse_raw_email (both copies)
\* bounds of the messages parsed
MaxParts == 2       \* parts a multipart message yields to walk(), its root aside
MaxPayload == 2     \* bytes of the payload of a non-multipart message

\* payload bytes: a letter, a blank, and a byte that is not valid UTF-8
Bytes == {"a", " ", "xFF"}
Charsets == {"absent", "latin-1", "bogus"}

RECURSIVE SeqsUpTo(_, _)
SeqsUpTo(S, n) ==
    IF n = 0 THEN {<<>>}
    ELSE LET shorter == SeqsUpTo(S, n - 1)
         IN  shorter \cup {Append(q, x) : q \in shorter, x \in S}

\* email_message.get(name, '')
RawHeader(h) ==
    CASE h = "absent"  -> ""
      [] h = "plain"   -> "Team sync"
      [] h = "encoded" -> "=?utf-8?q?Caf=C3=A9?="
      [] h = "bad"     -> "=?bogus?q?x?="

\* str(make_header(decode_header(raw))): LookupError for the unknown charset
MakeHeader(h) ==
    CASE h = "absent"  -> [raised |-> FALSE, value |-> ""]
      [] h = "plain"   -> [raised |-> FALSE, value |-> "Team sync"]
      [] h = "encoded" -> [raised |-> FALSE, value |-> "Café"]
      [] h = "bad"     -> [raised |-> TRUE,  value |-> ""]

\* get_content_charset() or 'utf-8'
Codec(charset) == IF charset = "absent" THEN "utf-8" ELSE charset

\* bytes.decode(codec, errors=errors) for a codec Python knows: in UTF-8 the
\* invalid byte becomes U+FFFD under 'replace' and vanishes under 'ignore';
\* in Latin-1 every byte is a character
RECURSIVE DecodeBytes(_, _, _)
DecodeBytes(payload, codec, errors) ==
    IF payload = <<>> THEN <<>>
    ELSE LET b == Head(payload)
             rest == DecodeBytes(Tail(payload), codec, errors)
         IN  IF b # "xFF" THEN <<b>> \o rest
             ELSE IF codec = "latin-1" THEN <<"ÿ">> \o rest
             ELSE IF errors = "replace" THEN <<"U+FFFD">> \o rest
             ELSE rest

\* payload.decode(codec, errors=errors): LookupError for an unknown codec
Decode(payload, codec, errors) ==
    IF codec = "bogus"
    THEN [raised |-> TRUE, value |-> <<>>]
    ELSE [raised |-> FALSE, value |-> DecodeBytes(payload, codec, errors)]

\* str.strip()
RECURSIVE LStrip(_)
LStrip(t) == IF t # <<>> /\ Head(t) = " " THEN LStrip(Tail(t)) ELSE t
RECURSIVE RStrip(_)
RStrip(t) == IF t # <<>> /\ t[Len(t)] = " " THEN RStrip(SubSeq(t, 1, Len(t) - 1)) ELSE t
Strip(t) == RStrip(LStrip(t))

\* one part as walk() yields it
Part(ct, disp, cs, pl) ==
    [content_type |-> ct, disposition |-> disp, charset |-> cs, payload |-> pl]

\* the parts of the multipart messages parsed: text/plain parts inline or
\* attached, with or without payload, in a known or unknown charset; an HTML
\* alternative; a nested multipart container
WalkParts ==
    {Part("text/plain", d, c, pl) : d \in {"", "attachment"}, c \in {"absent", "bogus"},
                                    pl \in {<<>>, <<"a">>, <<"b">>}}
    \cup {Part("text/html", "", "absent", <<"h">>)}
    \cup {Part("multipart/alternative", "", "absent", <<>>)}

Message(s, f, t, multi, ps) ==
    [kind |-> "message", Subject |-> s, From |-> f, To |-> t,
     multipart |-> multi, parts |-> ps]

\* the raw messages parsed: no bytes at all, an argument message_from_bytes
\* rejects, every mix of headers over one small body, every small
\* non-multipart body and every short multipart body under plain headers
\* a header as it stands in the raw message: absent, plain ASCII, an RFC 2047
\* encoded word, or an encoded word naming a charset Python does not know
RawEmails ==
    {[kind |-> "empty"], [kind |-> "unparsable"]}
    \cup {Message(s, f, t, FALSE, <<Part("text/plain", "", "absent", <<"a">>)>>) :
            s \in {"absent", "plain", "encoded", "bad"},
            f \in {"absent", "plain", "encoded", "bad"},
            t \in {"absent", "plain", "encoded", "bad"}}
    \cup {Message("plain", "plain", "plain", FALSE, <<Part("text/plain", "", c, pl)>>) :
            c \in Charsets, pl \in SeqsUpTo(Bytes, MaxPayload)}
    \cup {Message("plain", "plain", "plain", TRUE, ps) :
            ps \in SeqsUpTo(WalkParts, MaxParts) \ {<<>>}}

EmptyParsed == [subject |-> "", from |-> "", to |-> "", body |-> <<>>]
Returns(v) == [raised |-> FALSE, value |-> v]
Raises == [raised |-> TRUE, value |-> None]

\* ------------------------------------------------------ email_parser.py
\* decode_email_header (email_parser.py:13-38): "" for an empty header, the
\* decoded text, or str(header_string) when decoding raises
DecodeEmailHeader(h) ==
    IF RawHeader(h) = "" THEN ""
    ELSE IF MakeHeader(h).raised THEN RawHeader(h)
    ELSE MakeHeader(h).value

\* the loop "for part in email_message.walk()" (email_parser.py:58-83): a
\* text/plain part that is not an attachment ends the walk only when its
\* payload is not empty and decodes; otherwise the walk goes on
RECURSIVE GetEmailBodyWalk(_)
GetEmailBodyWalk(ps) ==
    IF ps = <<>> THEN <<>>
    ELSE LET part == Head(ps)
             charset == Codec(part.charset)
             body == Decode(part.payload, charset, "replace")
         IN  IF /\ part.content_type = "text/plain"
                /\ part.disposition # "attachment"
                /\ part.payload # <<>>
                /\ ~body.raised
             THEN Strip(body.value)
             ELSE GetEmailBodyWalk(Tail(ps))

\* get_email_body (email_parser.py:41-105); for a non-multipart message an
\* empty payload or a decoding error falls through to "return ''"
GetEmailBody(m) ==
    IF m.multipart THEN GetEmailBodyWalk(m.parts)
    ELSE LET part == m.parts[1]
             body == Decode(part.payload, Codec(part.charset), "replace")
         IN  IF part.payload # <<>> /\ ~body.raised THEN Strip(body.value) ELSE <<>>

\* the body of the try of email_parser.py:122-145
ParseRawEmailTry(raw) ==
    IF raw.kind = "unparsable" THEN Raises
    ELSE Returns([subject |-> DecodeEmailHeader(raw.Subject),
                  from    |-> DecodeEmailHeader(raw.From),
                  to      |-> DecodeEmailHeader(raw.To),
                  body    |-> GetEmailBody(raw)])

\* parse_raw_email (email_parser.py:108-149)
ParseRawEmail(raw) ==
    IF raw.kind = "empty" THEN Returns(EmptyParsed)
    ELSE IF ParseRawEmailTry(raw).raised THEN Returns(EmptyParsed)
    ELSE ParseRawEmailTry(raw)

\* --------------------------------------------------------------- app.py
\* the loop of app.py:369-379: the first text/plain part with a payload is
\* decoded, whatever its Content-Disposition, and ends the walk
RECURSIVE AppWalk(_)
AppWalk(ps) ==
    IF ps = <<>> THEN Returns(<<>>)
    ELSE LET part == Head(ps)
         IN  IF part.content_type = "text/plain" /\ part.payload # <<>>
             THEN Decode(part.payload, Codec(part.charset), "ignore")
             ELSE AppWalk(Tail(ps))

\* body of app.py:367-388
AppBody(m) ==
    IF m.multipart THEN AppWalk(m.parts)
    ELSE LET part == m.parts[1]
         IN  IF part.payload # <<>>
             THEN Decode(part.payload, Codec(part.charset), "ignore")
             ELSE Returns(<<>>)

\* the body of the try of app.py:360-390: the first exception, of a header
\* or of the body, leaves it
AppParseRawEmailTry(raw) ==
    IF raw.kind = "unparsable" THEN Raises
    ELSE IF \/ MakeHeader(raw.Subject).raised
            \/ MakeHeader(raw.From).raised
            \/ MakeHeader(raw.To).raised
            \/ AppBody(raw).raised
         THEN Raises
         ELSE Returns([subject |-> MakeHeader(raw.Subject).value,
                       from    |-> MakeHeader(raw.From).value,
                       to      |-> MakeHeader(raw.To).value,
                       body    |-> AppBody(raw).value])

\* a variant without the except of app.py:391-392
AppParseRawEmail_noExcept(raw) ==
    IF raw.kind = "empty" THEN Returns(EmptyParsed) ELSE AppParseRawEmailTry(raw)

\* parse_raw_email (app.py:355-392)
AppParseRawEmail(raw) ==
    IF raw.kind = "empty" THEN Returns(EmptyParsed)
    ELSE IF AppParseRawEmailTry(raw).raised THEN Returns(EmptyParsed)
    ELSE AppParseRawEmailTry(raw)

\* ------------------------------------------------ parsing one raw message
InitParse ==
    /\ ScanInit
    /\ raw_email \in RawEmails
    /\ parser \in {"email_parser", "app"}
    /\ parsed = None
    /\ FormatIdle /\ ExtractIdle /\ ContextIdle /\ LateIdle

\* main.py:87 calls email_parser.parse_raw_email
ParseEmailParser ==
    /\ parser = "email_parser" /\ parsed = None
    /\ parsed' = [kind |-> "parsed", out |-> ParseRawEmail(raw_email)]
    /\ UNCHANGED <<raw_email, parser, scanVars, formatVars, extractVars, contextVars, lateVars>>

\* app.py:900 calls app.parse_raw_email
ParseApp ==
    /\ parser = "app" /\ parsed = None
    /\ parsed' = [kind |-> "parsed", out |-> AppParseRawEmail(raw_email)]
    /\ UNCHANGED <<raw_email, parser, scanVars, formatVars, extractVars, contextVars, lateVars>>

NextParse ==
    \/ ParseEmailParser
    \/ ParseApp

SpecParse == InitParse /\ [][NextParse]_vars

\* ===================================== the walk of doc.ents (both pipelines)
MaxSpans == 3       \* spans of doc.ents
MaxDocLen == 23     \* tokens of a document

Pipelines == {"dash", "cli"}

InitExtract ==
    /\ ScanInit
    /\ pipeline \in Pipelines
    /\ doc_ents = <<>>
    /\ candidates = <<>>
    /\ ParseIdle /\ FormatIdle /\ ContextIdle /\ LateIdle

\* the next span of doc.ents and the label test on it (app.py:408-409)
DashSpan ==
    /\ pipeline = "dash"
    /\ Len(doc_ents) < MaxSpans
    /\ \E label \in Labels :
         /\ doc_ents' = Append(doc_ents, label)
         /\ candidates' = IF label \in CandidateLabels("dash")
                          THEN Append(candidates, Len(doc_ents) + 1)
                          ELSE candidates
    /\ UNCHANGED <<pipeline, scanVars, parseVars, formatVars, contextVars, lateVars>>

\* the same step of intelligence_module.py:47-48, 59
CliSpan ==
    /\ pipeline = "cli"
    /\ Len(doc_ents) < MaxSpans
    /\ \E label \in Labels :
         /\ doc_ents' = Append(doc_ents, label)
         /\ candidates' = IF label \in CandidateLabels("cli")
                          THEN Append(candidates, Len(doc_ents) + 1)
                          ELSE candidates
    /\ UNCHANGED <<pipeline, scanVars, parseVars, formatVars, contextVars, lateVars>>

NextExtract ==
    \/ DashSpan
    \/ CliSpan

SpecExtract == InitExtract /\ [][NextExtract]_vars

\* ------------------------------------------------------ the context window
Max(a, b) == IF a >= b THEN a ELSE b
Min(a, b) == IF a <= b THEN a ELSE b

\* the token radius: app.py:410-411 and intelligence_module.py:55-56
ContextRadius(p) == IF p = "dash" THEN 10 ELSE 3

\* a variant that does not clip the slice to the document
ContextWindow_unclipped(p, sp) ==
    [kind |-> "window", start |-> sp.start - ContextRadius(p),
                        end |-> sp.end + ContextRadius(p)]

\* start = max(0, ent.start - r); end = min(len(doc), ent.end + r): the
\* slice doc[start:end], end exclusive
ContextWindow(p, sp) ==
    [kind |-> "window", start |-> Max(0, sp.start - ContextRadius(p)),
                        end |-> Min(sp.len, sp.end + ContextRadius(p))]

\* a span doc[start:end] of at least one token in a document of len tokens
Spans ==
    {[kind |-> "span", start |-> a, end |-> b, len |-> n] :
        a \in 0..MaxDocLen, b \in 0..MaxDocLen, n \in 1..MaxDocLen}

InitContext ==
    /\ ScanInit
    /\ pipeline \in Pipelines
    /\ doc_ents = <<>>
    /\ candidates = <<>>
    /\ span \in {sp \in Spans : sp.start < sp.end /\ sp.end <= sp.len}
    /\ window = None
    /\ ParseIdle /\ FormatIdle /\ LateIdle

\* app.py:410-412
DashContext ==
    /\ pipeline = "dash" /\ window = None
    /\ window' = ContextWindow("dash", span)
    /\ UNCHANGED <<span, scanVars, parseVars, formatVars, extractVars, lateVars>>

\* intelligence_module.py:55-57
CliContext ==
    /\ pipeline = "cli" /\ window = None
    /\ window' = ContextWindow("cli", span)
    /\ UNCHANGED <<span, scanVars, parseVars, formatVars, extractVars, lateVars>>

NextContext ==
    \/ DashContext
    \/ CliContext

SpecContext == InitContext /\ [][NextContext]_vars

\* ===================================== notifier.py: format_event_notification
MaxDaysAhead == 4   \* days from now to the latest instant of an event

\* the instants of the events formatted: from two days before now to
\* MaxDaysAhead days after it; an event found a moment before its instant is
\* formatted after it
FormatInstants == (Now0 - 2 * DayLen)..(Now0 + MaxDaysAhead * DayLen)

\* the event dicts formatted: event.get('datetime') is None, a zone-naive
\* or a zone-aware datetime
FormatEvents ==
    [event_context : {"", "due - the report is due Friday"},
     datetime      : {NoDate} \cup {Naive(t) : t \in FormatInstants}
                              \cup {Aware(t) : t \in FormatInstants},
     original_text : {"", "Friday"}]

\* the urgency text of the title; n is the number inside "IN {days_until} DAYS"
Label(word, n) == [word |-> word, n |-> n]

\* notifier.py:222-229; no comparison sets anything for a negative
\* days_until, which reaches the "<= 3" branch. The except of
\* notifier.py:230-233 is not reached: current_time is made zone-aware when
\* the event's datetime is (notifier.py:215-217)
UrgencyLabel(days_until) ==
    IF days_until = 0 THEN Label("TODAY", 0)
    ELSE IF days_until = 1 THEN Label("TOMORROW", 1)
    ELSE IF days_until <= 3 THEN Label("IN N DAYS", days_until)
    ELSE Label("IN N DAYS", days_until)

\* event_datetime.strftime('%A, %B %d at %I:%M %p') (notifier.py:209)
Strftime(t) == [text |-> "%A, %B %d at %I:%M %p", at |-> t]

\* formatted_date = "Unknown date" (notifier.py:235)
UnknownDate == [text |-> "Unknown date", at |-> 0]

\* title and message_parts (notifier.py:239-252); message is the parts
\* joined by "\n"; the calendar sign that opens the title is left out of
\* prefix
TitleAndMessage(ev, subj, formatted_date, urgency) ==
    [title   |-> [prefix |-> "Reminder: ", urgency |-> urgency],
     message |-> (IF subj # "" THEN <<[label |-> "From email: ", value |-> subj]>>
                               ELSE <<>>)
                 \o <<[label |-> "Event: ", value |-> ev.event_context],
                      [label |-> "When: ", value |-> formatted_date]>>
                 \o (IF ev.original_text # ""
                     THEN <<[label |-> "Original: ", value |-> ev.original_text]>>
                     ELSE <<>>)]

\* a variant that calls strftime without the test of notifier.py:208
FormatEventNotification_unguarded(ev, subj, now) ==
    IF ~ev.datetime.ok THEN Raises
    ELSE Returns(TitleAndMessage(ev, subj, Strftime(ev.datetime.at),
                                 UrgencyLabel(DaysUntil(ev.datetime.at, now))))

\* format_event_notification (notifier.py:191-252)
FormatEventNotification(ev, subj, now) ==
    IF ev.datetime.ok
    THEN Returns(TitleAndMessage(ev, subj, Strftime(ev.datetime.at),
                                 UrgencyLabel(DaysUntil(ev.datetime.at, now))))
    ELSE Returns(TitleAndMessage(ev, subj, UnknownDate, Label("", 0)))

InitFormat ==
    /\ ScanInit
    /\ event \in FormatEvents
    /\ email_subject \in Subjects
    /\ notification = None
    /\ ParseIdle /\ ExtractIdle /\ ContextIdle /\ LateIdle

\* title, message = format_event_notification(event, subject) (main.py:112-115)
Format ==
    /\ notification = None
    /\ event # None
    /\ notification' = [kind |-> "formatted",
                        out  |-> FormatEventNotification(event, email_subject, clock)]
    /\ UNCHANGED <<event, email_subject, scanVars, parseVars, extractVars, contextVars, lateVars>>

NextFormat == Format

SpecFormat == InitFormat /\ [][NextFormat]_vars

\* ============================== main.py: run_reminder_workflow, per message
\* One run of run_reminder_workflow, one step per iteration of its loop.
\* What find_actionable_events recognises in a text is given with the
\* message: the temporal mentions of its subject and of its body.

\* messages in the mailbox that match the query
MaxInbox == 2

\* subject and body of a parsed message (main.py:86-100): the mentions of
\* its subject, its body and the mentions of its body
Mails ==
    [subject : {<<>>, <<"Oct 22">>}, body : {""}, mentions : {<<>>}]
        \cup [subject : {<<>>, <<"Oct 22">>}, body : {"text"},
              mentions : {<<>>, <<"Oct 28">>, <<"Oct 22">>}]
Inboxes == UNION {[1..n -> Mails] : n \in 0..MaxInbox}

\* intelligence_module.find_actionable_events on a text with these mentions:
\* the accepted mentions in the order of the text, [] when the NER step fails
RECURSIVE FindActionableEvents(_, _, _)
FindActionableEvents(mentions, nlp, now) ==
    IF nlp # "ok" \/ mentions = <<>> THEN <<>>
    ELSE LET rest == FindActionableEvents(SubSeq(mentions, 1, Len(mentions) - 1), nlp, now)
             entity_text == mentions[Len(mentions)]
             parsed_datetime == Resolve(entity_text, now)
         IN  IF Accepted(parsed_datetime, now)
             THEN Append(rest, [original_text |-> entity_text,
                                datetime      |-> parsed_datetime.at])
             ELSE rest

\* full_text = f"{subject} {body}" (main.py:100): the mentions of the subject,
\* then those of the body
FullText(mail) == mail.subject \o mail.mentions

\* variant: one counted per message that has events
CountFound_perMessage(total, actionable_events) == total + 1

\* total_events_found += len(actionable_events) (main.py:105)
CountFound(total, actionable_events) == total + Len(actionable_events)

\* the notifications of one message: one per event, in the order of the list
\* (main.py:108-148)
Deliveries(message_id, actionable_events) ==
    [k \in 1..Len(actionable_events) |->
        [id            |-> message_id,
         original_text |-> actionable_events[k].original_text,
         datetime      |-> actionable_events[k].datetime]]

\* what a step of the run leaves alone
wfFrame == <<clock, mode, pc, msgs_left, subject, n_cands, cands, potential_events,
             events, all_events, session_events, scan_complete, current_time, idx,
             last_run, call, notified, parseVars, formatVars, extractVars, contextVars, callVars, sessVars, schedVars>>

InitWorkflow ==
    /\ ScanInit /\ ParseIdle /\ FormatIdle /\ ExtractIdle /\ ContextIdle /\ CallIdle /\ SessionIdle /\ ScheduleIdle
    /\ inbox \in Inboxes
    /\ messages = <<>>
    /\ msg_i = 1
    /\ attempted = <<>>
    /\ delivered = <<>>
    /\ wf = "start"

\* get_gmail_service returns nothing, or it or search_emails raises
\* (main.py:50-54, 63; auth.py:29-37 and email_fetcher.py:34 let every
\* exception but HttpError through)
WfNoService ==
    /\ wf = "start"
    /\ \E auth \in {"service", "none", "raises"}, search \in {"ok", "http_error", "raises"} :
         /\ auth # "service" \/ search = "raises"
         /\ wf' = IF auth = "none" THEN "returned" ELSE "raised"
    /\ UNCHANGED <<inbox, messages, msg_i, attempted, delivered,
                   total_events_found, processed_emails>>
    /\ UNCHANGED wfFrame

\* messages = search_emails(service, query); "if not messages: return"
\* (main.py:62-67); search_emails returns [] on HttpError
\* (email_fetcher.py:34-36)
WfSearch ==
    /\ wf = "start"
    /\ \E search \in {"ok", "http_error"} :
         LET found == IF search = "ok" THEN [k \in 1..Len(inbox) |-> k] ELSE <<>>
         IN  /\ messages' = found
             /\ wf' = IF found = <<>> THEN "returned" ELSE "loop"
    /\ total_events_found' = 0
    /\ processed_emails' = 0
    /\ msg_i' = 1
    /\ UNCHANGED <<inbox, attempted, delivered>>
    /\ UNCHANGED wfFrame

\* get_raw_email returns None on HttpError: "continue" (main.py:80-84,
\* email_fetcher.py:72-74)
WfFetchFails ==
    /\ wf = "loop" /\ msg_i <= Len(messages)
    /\ attempted' = Append(attempted, [id |-> messages[msg_i], outcome |-> "fetch_failed", events |-> 0])
    /\ msg_i' = msg_i + 1
    /\ UNCHANGED <<inbox, messages, delivered, wf, total_events_found, processed_emails>>
    /\ UNCHANGED wfFrame

\* get_raw_email raises anything but HttpError: nothing in get_raw_email or
\* in run_reminder_workflow catches it (email_fetcher.py:52-74, main.py:80)
WfFetchRaises ==
    /\ wf = "loop" /\ msg_i <= Len(messages)
    /\ attempted' = Append(attempted, [id |-> messages[msg_i], outcome |-> "raised", events |-> 0])
    /\ wf' = "raised"
    /\ UNCHANGED <<inbox, messages, msg_i, delivered, total_events_found, processed_emails>>
    /\ UNCHANGED wfFrame

\* "if not parsed_email or not parsed_email.get('body'): continue"
\* (main.py:87-91): parse_raw_email failed and returned its empty fields, or
\* the body is empty
WfSkipNoBody ==
    /\ wf = "loop" /\ msg_i <= Len(messages)
    /\ \E parse_ok \in BOOLEAN :
         /\ ~parse_ok \/ inbox[messages[msg_i]].body = ""
         /\ attempted' = Append(attempted,
                [id |-> messages[msg_i],
                 outcome |-> IF parse_ok THEN "no_body" ELSE "parse_failed",
                 events |-> 0])
    /\ msg_i' = msg_i + 1
    /\ UNCHANGED <<inbox, messages, delivered, wf, total_events_found, processed_emails>>
    /\ UNCHANGED wfFrame

\* the rest of the iteration: analysis, one notification per event, the
\* counters (main.py:93-154)
WfAnalyse ==
    /\ wf = "loop" /\ msg_i <= Len(messages)
    /\ inbox[messages[msg_i]].body # ""
    /\ \E nlp \in NlpStates :
         LET actionable_events ==
                 FindActionableEvents(FullText(inbox[messages[msg_i]]), nlp, clock)
         IN  /\ total_events_found' =
                    IF actionable_events # <<>>
                    THEN CountFound(total_events_found, actionable_events)
                    ELSE total_events_found
             /\ delivered' = delivered \o Deliveries(messages[msg_i], actionable_events)
             /\ attempted' = Append(attempted,
                    [id |-> messages[msg_i], outcome |-> "analysed",
                     events |-> Len(actionable_events)])
    /\ processed_emails' = processed_emails + 1
    /\ msg_i' = msg_i + 1
    /\ UNCHANGED <<inbox, messages, wf>>
    /\ UNCHANGED wfFrame

\* the loop is over: the summary is printed and the run returns
\* (main.py:156-163)
WfSummary ==
    /\ wf = "loop" /\ msg_i > Len(messages)
    /\ wf' = "summary"
    /\ UNCHANGED <<inbox, messages, msg_i, attempted, delivered,
                   total_events_found, processed_emails>>
    /\ UNCHANGED wfFrame

NextWorkflow ==
    \/ WfNoService
    \/ WfSearch
    \/ WfFetchFails
    \/ WfFetchRaises
    \/ WfSkipNoBody
    \/ WfAnalyse
    \/ WfSummary

SpecWorkflow == InitWorkflow /\ [][NextWorkflow]_vars

\* ================== functions called on their own with what they rely on
\* send_desktop_notification (notifier.py), search_emails and get_raw_email
\* (email_fetcher.py) and send_email_notification (app.py), each called once
\* with arguments and collaborators drawn at the start.  effects records the
\* outside calls a function made: the notification backends, the Gmail
\* service, the mail relay.

\* events of the list handed to send_email_notification
MaxListed == 2

Effect(name, listed) == [call |-> name, with |-> listed]

\* notifier.py:22-110.  The last resort prints to the console and returns
\* True; the lines after that return are never reached.
\* variant: False when every backend has failed
SendDesktopNotification_noFallback(a) ==
    IF a.plyer = "ok"
    THEN [result |-> Returns(TRUE), effects |-> <<Effect("plyer", <<>>)>>]
    ELSE IF a.system = "windows" /\ a.powershell = "0"
    THEN [result |-> Returns(TRUE),
          effects |-> <<Effect("plyer", <<>>), Effect("powershell", <<>>)>>]
    ELSE [result |-> Returns(FALSE),
          effects |-> <<Effect("plyer", <<>>)>>
                      \o (IF a.system = "windows" THEN <<Effect("powershell", <<>>)>> ELSE <<>>)]

SendDesktopNotification(a) ==
    IF a.plyer = "ok"
    THEN [result |-> Returns(TRUE), effects |-> <<Effect("plyer", <<>>)>>]
    ELSE IF a.system = "windows" /\ a.powershell = "0"
    THEN [result |-> Returns(TRUE),
          effects |-> <<Effect("plyer", <<>>), Effect("powershell", <<>>)>>]
    ELSE [result |-> Returns(TRUE),
          effects |-> <<Effect("plyer", <<>>)>>
                      \o (IF a.system = "windows" THEN <<Effect("powershell", <<>>)>> ELSE <<>>)
                      \o <<Effect("console", <<>>)>>]

\* email_fetcher.py:5-36
\* variant: without the test of the service object, service.users() on None
\* raises AttributeError, which "except HttpError" lets through
SearchEmails_noServiceTest(a) ==
    CASE a.service = "None"  -> [result |-> Raises, effects |-> <<>>]
      [] a.api = "found"      -> [result |-> Returns(<<"id1", "id2">>),
                                  effects |-> <<Effect("list", <<>>)>>]
      [] a.api = "raises"     -> [result |-> Raises, effects |-> <<Effect("list", <<>>)>>]
      [] OTHER                -> [result |-> Returns(<<>>), effects |-> <<Effect("list", <<>>)>>]

SearchEmails(a) ==
    CASE a.service = "None"  -> [result |-> Returns(<<>>), effects |-> <<>>]
      [] a.api = "found"      -> [result |-> Returns(<<"id1", "id2">>),
                                  effects |-> <<Effect("list", <<>>)>>]
      [] a.api = "raises"     -> [result |-> Raises, effects |-> <<Effect("list", <<>>)>>]
      [] OTHER                -> [result |-> Returns(<<>>), effects |-> <<Effect("list", <<>>)>>]

\* email_fetcher.py:38-74
GetRawEmail(a) ==
    CASE a.service = "None"  -> [result |-> Returns(None), effects |-> <<>>]
      [] a.api = "found"      -> [result |-> Returns([kind |-> "bytes"]),
                                  effects |-> <<Effect("get", <<>>)>>]
      [] a.api = "raises"     -> [result |-> Raises, effects |-> <<Effect("get", <<>>)>>]
      [] OTHER                -> [result |-> Returns(None), effects |-> <<Effect("get", <<>>)>>]

\* the lists show_scan_page hands over: deduplicated and ranked (app.py:912-924)
RECURSIVE EventLists(_)
EventLists(n) ==
    IF n = 0 THEN {<<>>}
    ELSE EventLists(n - 1) \cup
         {Append(l, MkEvent(t, Resolve(t, Now0).at, Now0)) :
             l \in EventLists(n - 1), t \in {"Oct 17", "Oct 20 noon", "Oct 22", "Oct 28"}}
UniqueEvents == {RankSort(Dedup(l)) : l \in EventLists(MaxListed)}

\* app.py:447-505
\* variant: every event listed, without the filter on urgency_color
SendEmailNotification_unfiltered(a) ==
    IF a.sender_email = "" \/ a.sender_password = "" \/ a.events = <<>>
    THEN [result |-> Returns(FALSE), effects |-> <<>>]
    ELSE [result |-> Returns(a.smtp = "ok"), effects |-> <<Effect("smtp", a.events)>>]

SendEmailNotification(a) ==
    IF a.sender_email = "" \/ a.sender_password = "" \/ a.events = <<>>
    THEN [result |-> Returns(FALSE), effects |-> <<>>]
    ELSE LET urgent_events ==
                 SelectSeq(a.events, LAMBDA e : e.urgency_color \in {"urgent", "medium"})
         IN  IF urgent_events = <<>>
             THEN [result |-> Returns(FALSE), effects |-> <<>>]
             ELSE [result |-> Returns(a.smtp = "ok"),
                   effects |-> <<Effect("smtp", urgent_events)>>]

callFrame == <<scanVars, parseVars, formatVars, extractVars, contextVars, wfVars, sessVars, schedVars>>

InitCalls ==
    /\ ScanInit /\ ParseIdle /\ FormatIdle /\ ExtractIdle /\ ContextIdle /\ WorkflowIdle /\ SessionIdle /\ ScheduleIdle
    /\ \/ /\ callee = "send_desktop_notification"
          /\ args \in [title : {"", "Reminder: TODAY - meeting"},
                       message : {"", "Event: meeting"},
                       plyer : {"ok", "raises"}, system : {"windows", "linux"},
                       powershell : {"0", "1", "raises"}]
       \/ /\ callee \in {"search_emails", "get_raw_email"}
          /\ args \in [service : {"None", "service"},
                       query : {"", "is:unread newer_than:1d"},
                       api : {"found", "nothing", "http_error", "raises"}]
       \/ /\ callee = "send_email_notification"
          /\ args \in [events : UniqueEvents, sender_email : {"", "me@example.com"},
                       sender_password : {"", "app password"},
                       smtp : {"ok", "raises"}, send_email : BOOLEAN]
    /\ result = None
    /\ effects = <<>>
    /\ told = "none"

\* success = send_desktop_notification(title, message) (main.py:117)
CallDesktop ==
    /\ callee = "send_desktop_notification" /\ result = None
    /\ result' = SendDesktopNotification(args).result
    /\ effects' = SendDesktopNotification(args).effects
    /\ UNCHANGED <<callee, args, told>>
    /\ UNCHANGED callFrame

\* "if success: ... else: ..." (main.py:120-130)
TellDesktop ==
    /\ callee = "send_desktop_notification" /\ result # None /\ told = "none"
    /\ ~result.raised
    /\ told' = IF result.value THEN "sent" ELSE "failed"
    /\ UNCHANGED <<callee, args, result, effects>>
    /\ UNCHANGED callFrame

CallSearchEmails ==
    /\ callee = "search_emails" /\ result = None
    /\ result' = SearchEmails(args).result
    /\ effects' = SearchEmails(args).effects
    /\ UNCHANGED <<callee, args, told>>
    /\ UNCHANGED callFrame

CallGetRawEmail ==
    /\ callee = "get_raw_email" /\ result = None
    /\ result' = GetRawEmail(args).result
    /\ effects' = GetRawEmail(args).effects
    /\ UNCHANGED <<callee, args, told>>
    /\ UNCHANGED callFrame

\* send_email_notification(events, user_email) called on any list
CallSummary ==
    /\ callee = "send_email_notification" /\ result = None /\ told = "none"
    /\ result' = SendEmailNotification(args).result
    /\ effects' = SendEmailNotification(args).effects
    /\ UNCHANGED <<callee, args, told>>
    /\ UNCHANGED callFrame

\* "if send_email and unique_events: if send_email_notification(...):
\* st.success(...)" at the end of a scan (app.py:926-930)
ScanSummary ==
    /\ callee = "send_email_notification" /\ result = None /\ told = "none"
    /\ IF args.send_email /\ args.events # <<>>
       THEN /\ result' = SendEmailNotification(args).result
            /\ effects' = SendEmailNotification(args).effects
            /\ told' = IF SendEmailNotification(args).result.value
                       THEN "sent" ELSE "silent"
       ELSE /\ told' = "not called"
            /\ UNCHANGED <<result, effects>>
    /\ UNCHANGED <<callee, args>>
    /\ UNCHANGED callFrame

NextCalls ==
    \/ CallDesktop
    \/ TellDesktop
    \/ CallSearchEmails
    \/ CallGetRawEmail
    \/ CallSummary
    \/ ScanSummary

SpecCalls == InitCalls /\ [][NextCalls]_vars

\* ============================================ app.py: the dashboard session
\* One step per button press: the handler of the button and the rerun of the
\* script that follows it.  The buttons "Go to Authentication" (app.py:824)
\* and "Go to Scan" (app.py:951) sit behind tests that no sequence of
\* presses makes true, so they have no step.

\* authentications that succeed in one session
MaxLogins == 2

\* the session state created at app.py:511-522, and again after logout
FreshSession ==
    [page |-> "home", authenticated |-> FALSE, service |-> "None",
     events |-> <<>>, scan_complete |-> FALSE]

\* variant: logout only goes back to the home page
LoggedOut_pageOnly(s) == [s EXCEPT !.page = "home"]

\* "for key in list(st.session_state.keys()): del st.session_state[key]",
\* page = 'home', rerun (app.py:1054-1058)
LoggedOut(s) == FreshSession

Session ==
    [page |-> page, authenticated |-> authenticated, service |-> service,
     events |-> session_events, scan_complete |-> scan_complete]

\* show_results_page gets as far as the event cards (app.py:947-1040)
ShowsEvents ==
    page = "results" /\ scan_complete /\ session_events # <<>>

sessFrame == <<clock, mode, pc, msgs_left, subject, n_cands, cands, potential_events,
               events, all_events, current_time, idx, total_events_found,
               processed_emails, last_run, call, notified,
               parseVars, formatVars, extractVars, contextVars, wfVars, callVars, schedVars>>

InitSession ==
    /\ ScanInit /\ ParseIdle /\ FormatIdle /\ ExtractIdle /\ ContextIdle /\ WorkflowIdle /\ CallIdle /\ ScheduleIdle
    /\ page = FreshSession.page
    /\ authenticated = FreshSession.authenticated
    /\ service = FreshSession.service
    /\ signed_in = FALSE
    /\ logins = 0
    /\ scan_login = 0
    /\ did = "none"

\* "Get Started Free" (app.py:755-757)
GetStarted ==
    /\ page = "home"
    /\ page' = "authenticate"
    /\ did' = "none"
    /\ UNCHANGED <<authenticated, service, signed_in, logins, scan_login,
                   session_events, scan_complete>>
    /\ UNCHANGED sessFrame

\* "Authenticate with Google" (app.py:785-803): get_gmail_service gives
\* (service, user_email) or (None, None)
Authenticate ==
    /\ page = "authenticate" /\ ~authenticated
    /\ logins < MaxLogins
    /\ \E ok \in BOOLEAN :
         IF ok
         THEN /\ service' = "service"
              /\ authenticated' = TRUE
              /\ page' = "scan"
              /\ signed_in' = TRUE
              /\ logins' = logins + 1
         ELSE UNCHANGED <<service, authenticated, page, signed_in, logins>>
    /\ did' = "none"
    /\ UNCHANGED <<scan_login, session_events, scan_complete>>
    /\ UNCHANGED sessFrame

\* "Continue to Scan" (app.py:805-809)
ContinueToScan ==
    /\ page = "authenticate" /\ authenticated
    /\ page' = "scan"
    /\ did' = "none"
    /\ UNCHANGED <<authenticated, service, signed_in, logins, scan_login,
                   session_events, scan_complete>>
    /\ UNCHANGED sessFrame

\* "Back to Home" on the authentication page (app.py:811-814), "Back" on
\* the scan page (app.py:939-941), "Home" on the results page (app.py:1049-1052)
GoHome ==
    /\ \/ page = "authenticate"
       \/ page = "scan" /\ authenticated
       \/ ShowsEvents
    /\ page' = "home"
    /\ did' = "none"
    /\ UNCHANGED <<authenticated, service, signed_in, logins, scan_login,
                   session_events, scan_complete>>
    /\ UNCHANGED sessFrame

\* "Start Scanning" (app.py:878-936): the search, then for a search that
\* found messages the fetches, the list of ranked events and the results page
StartScanning ==
    /\ page = "scan" /\ authenticated
    /\ did' = "search"
    /\ \E found \in BOOLEAN, unique_events \in UniqueEvents :
         IF found
         THEN /\ session_events' = unique_events
              /\ scan_complete' = TRUE
              /\ scan_login' = logins
              /\ page' = "results"
         ELSE /\ session_events' = <<>>
              /\ UNCHANGED <<scan_complete, scan_login, page>>
    /\ UNCHANGED <<authenticated, service, signed_in, logins>>
    /\ UNCHANGED sessFrame

\* "Scan Again" under "no events" (app.py:964-968) and under the event
\* cards (app.py:1044-1048)
ScanAgain ==
    /\ page = "results" /\ scan_complete
    /\ IF session_events = <<>>
       THEN UNCHANGED <<scan_complete, session_events>>
       ELSE scan_complete' = FALSE /\ session_events' = <<>>
    /\ page' = "scan"
    /\ did' = "none"
    /\ UNCHANGED <<authenticated, service, signed_in, logins, scan_login>>
    /\ UNCHANGED sessFrame

\* "Logout" (app.py:1054-1058)
Logout ==
    /\ ShowsEvents
    /\ page' = LoggedOut(Session).page
    /\ authenticated' = LoggedOut(Session).authenticated
    /\ service' = LoggedOut(Session).service
    /\ session_events' = LoggedOut(Session).events
    /\ scan_complete' = LoggedOut(Session).scan_complete
    /\ signed_in' = FALSE
    /\ did' = "none"
    /\ UNCHANGED <<logins, scan_login>>
    /\ UNCHANGED sessFrame

NextSession ==
    \/ GetStarted
    \/ Authenticate
    \/ ContinueToScan
    \/ GoHome
    \/ StartScanning
    \/ ScanAgain
    \/ Logout

SpecSession == InitSession /\ [][NextSession]_vars

\* ============================================= main.py: __main__, scheduling
\* The process of main.py: one run with --once, else one run at once and one
\* more at each tick of schedule.every(15).minutes.  A run is one step here;
\* every message of the mailbox holds one event.  Between runs messages
\* arrive, are read by the user or grow older than the query allows.

\* runs of the workflow in one process
MaxRuns == 2
\* messages the mailbox can hold
MaxMail == 2

\* variant: a message already notified is not notified again
Notifications_oncePerMessage(already, analysed) ==
    [m \in DOMAIN already |-> IF m \in analysed /\ already[m] = 0 THEN 1 ELSE already[m]]

\* main.py:108-148: every event of every analysed message is formatted and
\* delivered; nothing is read from or kept for another run
Notifications(already, analysed) ==
    [m \in DOMAIN already |-> IF m \in analysed THEN already[m] + 1 ELSE already[m]]

\* variant: the exception of a run is swallowed and the loop goes on
Escaped_swallowed == [proc |-> "sleep", exit_status |-> -1]

\* an exception leaves run_reminder_workflow: sys.exit(1) at main.py:177 and
\* main.py:224; the first run of the continuous mode (main.py:207) is outside
\* the try, and an uncaught exception ends python with status 1
Escaped == [proc |-> "exited", exit_status |-> 1]

schedFrame == <<scanVars, parseVars, formatVars, extractVars, contextVars,
                wfVars, callVars, sessVars>>

InitSchedule ==
    /\ ScanInit /\ ParseIdle /\ FormatIdle /\ ExtractIdle /\ ContextIdle /\ WorkflowIdle /\ CallIdle /\ SessionIdle
    /\ proc = "start"
    /\ exit_status = -1
    /\ once \in BOOLEAN
    /\ runs = 0
    /\ last = "none"
    /\ mailbox \in SUBSET (1..MaxMail)
    /\ sent = [m \in 1..MaxMail |-> 0]
    /\ matched = [m \in 1..MaxMail |-> 0]

\* run_once_and_exit (main.py:166-177) or the first run of the continuous
\* mode, right after the job is registered (main.py:203-207)
StartRun ==
    /\ proc = "start"
    /\ proc' = "run"
    /\ runs' = runs + 1
    /\ UNCHANGED <<exit_status, once, last, mailbox, sent, matched>>
    /\ UNCHANGED schedFrame

\* schedule.run_pending() finds the job due, 15 minutes after the last run
\* (main.py:203, 214-216)
TickRun ==
    /\ proc = "sleep"
    /\ runs < MaxRuns
    /\ proc' = "run"
    /\ runs' = runs + 1
    /\ UNCHANGED <<exit_status, once, last, mailbox, sent, matched>>
    /\ UNCHANGED schedFrame

\* the run returns before its loop: no service (main.py:52-54) or no
\* messages (main.py:65-67)
RunReturnsEarly ==
    /\ proc = "run"
    /\ \E why \in {"no service", "no messages"} :
         /\ why = "no messages" => mailbox = {}
         /\ last' = why
    /\ proc' = IF once THEN "exited" ELSE "sleep"
    /\ exit_status' = IF once THEN 0 ELSE exit_status
    /\ UNCHANGED <<once, runs, mailbox, sent, matched>>
    /\ UNCHANGED schedFrame

\* the run goes through its loop and prints its summary (main.py:75-163):
\* analysed are the messages that were fetched, parsed and analysed
RunCompletes ==
    /\ proc = "run"
    /\ mailbox # {}
    /\ \E analysed \in SUBSET mailbox :
         /\ sent' = Notifications(sent, analysed)
         /\ matched' = [m \in DOMAIN matched |->
                           IF m \in analysed THEN matched[m] + 1 ELSE matched[m]]
    /\ last' = "completed"
    /\ proc' = IF once THEN "exited" ELSE "sleep"
    /\ exit_status' = IF once THEN 0 ELSE exit_status
    /\ UNCHANGED <<once, runs, mailbox>>
    /\ UNCHANGED schedFrame

\* an exception leaves the run: from get_gmail_service (auth.py:29-37), from
\* search_emails or from get_raw_email (anything but HttpError), after the
\* messages before it were handled
RunRaises ==
    /\ proc = "run"
    /\ \E analysed \in SUBSET mailbox :
         /\ analysed # mailbox \/ mailbox = {}
         /\ sent' = Notifications(sent, analysed)
         /\ matched' = [m \in DOMAIN matched |->
                           IF m \in analysed THEN matched[m] + 1 ELSE matched[m]]
    /\ last' = "raised"
    /\ proc' = Escaped.proc
    /\ exit_status' = Escaped.exit_status
    /\ UNCHANGED <<once, runs, mailbox>>
    /\ UNCHANGED schedFrame

\* Ctrl+C while the loop sleeps: sys.exit(0) (main.py:218-221)
Interrupt ==
    /\ proc = "sleep"
    /\ proc' = "exited"
    /\ exit_status' = 0
    /\ UNCHANGED <<once, runs, last, mailbox, sent, matched>>
    /\ UNCHANGED schedFrame

\* between two runs the set of messages that match "is:unread newer_than:1d"
\* changes by what the user and the senders do (main.py:62)
MailboxChanges ==
    /\ proc = "sleep"
    /\ \E now_matching \in SUBSET (1..MaxMail) :
         /\ now_matching # mailbox
         /\ mailbox' = now_matching
    /\ UNCHANGED <<proc, exit_status, once, runs, last, sent, matched>>
    /\ UNCHANGED schedFrame

NextSchedule ==
    \/ StartRun
    \/ TickRun
    \/ RunReturnsEarly
    \/ RunCompletes
    \/ RunRaises
    \/ Interrupt
    \/ MailboxChanges

SpecSchedule == InitSchedule /\ [][NextSchedule]_vars

\* the loop of main.py:214-216 never stops polling, so a due job is run, and
\* a run that was started ends
SpecScheduleFair ==
    /\ SpecSchedule
    /\ WF_vars(TickRun)
    /\ WF_vars(RunReturnsEarly \/ RunCompletes \/ RunRaises)

\* ================================================================ claims
Range(s) == {s[i] : i \in 1..Len(s)}

\* the events app.py holds at any moment of a dashboard scan
DashEvents == IF mode = "dash" THEN Range(events) \cup Range(all_events) \cup Range(session_events)
              ELSE {}

Ranked == pc = "done" /\ mode = "dash" /\ scan_complete

\* the table of the specification, section 4.4
TierOf(d) ==
    CASE d < 0            -> "overdue"
      [] d \in {0, 1}     -> "urgent"
      [] d \in 2..7       -> "soon"
      [] OTHER            -> "upcoming"

\* C1: the urgency tier of every Event of a dashboard scan is the tier the
\* table gives for its days_until: below 0 overdue, 0 and 1 urgent, 2 to 7
\* soon, above 7 upcoming.
C1_TierFromDaysUntil == \A e \in DashEvents : e.urgency = TierOf(e.days_until)

\* C1 witness: a scan holding an Event at each inclusive boundary, 1 and 7.
C1_Witness ==
    /\ \E e \in DashEvents : e.days_until = 1 /\ e.urgency = "urgent"
    /\ \E e \in DashEvents : e.days_until = 7 /\ e.urgency = "soon"

\* the dedup key of the specification, section 3
KeyOf(e) == <<e.original_text, e.parsed_date \div DayLen>>

\* C2: in the list a scan publishes no two Events share (original_text,
\* calendar date); every key of all_events occurs in it exactly once, and
\* the Event kept for a key is the first one of all_events with that key.
C2_DedupKeepsFirst ==
    Ranked =>
      /\ \A i, j \in 1..Len(session_events) :
            KeyOf(session_events[i]) = KeyOf(session_events[j]) => i = j
      /\ \A i \in 1..Len(all_events) :
            \E j \in 1..Len(session_events) :
               /\ KeyOf(session_events[j]) = KeyOf(all_events[i])
               /\ \E f \in 1..i :
                    /\ session_events[j] = all_events[f]
                    /\ \A g \in 1..(f - 1) : KeyOf(all_events[g]) # KeyOf(all_events[i])
      /\ \A j \in 1..Len(session_events) : session_events[j] \in Range(all_events)

\* C2 witness: two Events of different messages with the same wording on the
\* same calendar day but different times of day collapsed into one.
C2_Witness ==
    /\ Ranked
    /\ Len(session_events) < Len(all_events)
    /\ \E i, j \in 1..Len(all_events) :
          /\ i < j
          /\ KeyOf(all_events[i]) = KeyOf(all_events[j])
          /\ all_events[i].parsed_date # all_events[j].parsed_date
          /\ all_events[i].email_subject # all_events[j].email_subject

\* severity of the specification, section 4.5
SeverityOf(e) ==
    CASE e.urgency \in {"overdue", "urgent"} -> 0
      [] e.urgency = "soon"                  -> 1
      [] OTHER                               -> 2

\* C3: the published list is sorted non-decreasingly by (severity,
\* parsed_date).
C3_RankedSorted ==
    Ranked =>
      \A i, j \in 1..Len(session_events) :
         i < j =>
           \/ SeverityOf(session_events[i]) < SeverityOf(session_events[j])
           \/ /\ SeverityOf(session_events[i]) = SeverityOf(session_events[j])
              /\ session_events[i].parsed_date <= session_events[j].parsed_date

\* C3 witness: a scan whose ranking moved an Event: the published list is
\* not the deduplicated list in its input order.
C3_Witness ==
    /\ Ranked
    /\ Len(session_events) >= 2
    /\ session_events # Dedup(all_events)

PosIn(s, e) == CHOOSE k \in 1..Len(s) : s[k] = e

\* C4: two published Events with equal (severity, parsed_date) stand in the
\* order they had in the deduplicated list.
C4_RankStable ==
    Ranked =>
      \A i, j \in 1..Len(session_events) :
         ( /\ i < j
           /\ SeverityOf(session_events[i]) = SeverityOf(session_events[j])
           /\ session_events[i].parsed_date = session_events[j].parsed_date )
         => PosIn(Dedup(all_events), session_events[i])
              < PosIn(Dedup(all_events), session_events[j])

\* C4 witness: a published list with two Events of equal severity and instant.
C4_Witness ==
    /\ Ranked
    /\ \E i, j \in 1..Len(session_events) :
          /\ i < j
          /\ SeverityOf(session_events[i]) = SeverityOf(session_events[j])
          /\ session_events[i].parsed_date = session_events[j].parsed_date

\* C5: deduplicating the deduplicated list changes nothing.
C5_DedupIdempotent == Dedup(Dedup(all_events)) = Dedup(all_events)

\* C5 witness: an accumulated list from which deduplication removes an Event
\* and keeps at least two.
C5_Witness ==
    /\ Len(Dedup(all_events)) < Len(all_events)
    /\ Len(all_events) >= 2

\* the candidates of the find_actionable_events call that is returning
CurCands == IF mode = "cli" THEN potential_events ELSE cands

Returned == pc = "ret"

\* the step of app.py:416-440 that has just appended an Event
Classified == mode = "dash" /\ pc = "ents" /\ Len(events') = Len(events) + 1

\* C6: an Event classified when its instant lies exactly 3 days back gets
\* days_until -3 and tier overdue, and in the published list every overdue
\* Event stands before every Event of another tier.
C6_OverdueFirst ==
    /\ [][Classified =>
            LET e == events'[Len(events')]
            IN  e.parsed_date = clock - 3 * DayLen
                  => e.days_until = -3 /\ e.urgency = "overdue"]_vars
    /\ [](Ranked =>
            \A i, j \in 1..Len(session_events) :
               ( /\ session_events[i].urgency = "overdue"
                 /\ session_events[j].urgency # "overdue" ) => i < j)

\* C7: two find_actionable_events calls of one scan on the same candidate
\* texts return the same list of Events.
C7_SameTextSameEvents ==
    (Returned /\ last_run.called /\ last_run.cands = CurCands)
        => last_run.events = events

\* C8: when find_actionable_events returns, a candidate has an Event in the
\* returned list exactly if dateparser resolves its text.
C8_EventIffResolved ==
    Returned =>
      \A k \in 1..Len(CurCands) :
         Resolve(CurCands[k], clock).ok
            <=> (\E e \in Range(events) : e.original_text = CurCands[k])

\* an instant before every reading of the clock in the scan
StrictlyPast(r) == r.ok /\ ~r.aware /\ r.at < Now0

\* C9: a candidate resolved to an instant strictly in the past has an Event
\* in the returned list, of tier overdue where tiers exist.
C9_PastAccepted ==
    Returned =>
      \A k \in 1..Len(CurCands) :
         StrictlyPast(Resolve(CurCands[k], clock)) =>
            \E e \in Range(events) :
               /\ e.original_text = CurCands[k]
               /\ mode = "dash" => e.urgency = "overdue"

\* a candidate that fails: nothing resolved, or a zone-aware instant that
\* cannot be compared with the zone-naive clock
Fails(r) == ~r.ok \/ r.aware

\* an instant after every reading of the clock in the scan, so that neither
\* pipeline's own treatment of past instants is in question
SafelyFuture(r) == r.ok /\ ~r.aware /\ r.at > Now0 + MaxTicks

\* C10: when one candidate of a message fails, every other candidate of the
\* message that resolves (here: to an instant after the scan) still has its
\* Event in the returned list.
C10_FailureIsLocal ==
    Returned =>
      \A k, f \in 1..Len(CurCands) :
         ( /\ k # f
           /\ Fails(Resolve(CurCands[f], clock))
           /\ SafelyFuture(Resolve(CurCands[k], clock)) )
         => \E e \in Range(events) : e.original_text = CurCands[k]

\* the NER capability failed during the current find_actionable_events call
NerFailed == call \in {"unavailable", "raises"}

\* C11: when the NER capability cannot be loaded, or raises while it
\* processes the text, find_actionable_events has returned, the list it
\* returned is empty, nothing was extracted, and no exception has left the
\* function at any point of the scan.
C11_NerFailureGivesEmptyList ==
    /\ pc # "raised"
    /\ NerFailed => /\ pc = "ret"
                    /\ events = <<>>
                    /\ cands = <<>>
                    /\ potential_events = <<>>

\* a dashboard scan whose second call found nlp(text) raising
C11_Witness ==
    /\ mode = "dash" /\ pc = "ret" /\ call = "raises"
    /\ last_run.called /\ events = <<>>

\* C20: a message whose subject and body are both empty yields no candidate
\* and no Event, and while it is the current message nothing is added to
\* the scan's events, nothing is counted as found and nothing is formatted
\* or delivered.
C20_BlankMessageYieldsNothing ==
    /\ [](call = "blank" => /\ cands = <<>>
                            /\ potential_events = <<>>
                            /\ events = <<>>)
    /\ [][(call = "blank" \/ call' = "blank")
            => UNCHANGED <<all_events, session_events, total_events_found, notified>>]_vars

\* a command-line run that delivered the events of its first message and
\* then met a message with empty subject and body
C20_Witness ==
    /\ mode = "cli" /\ call = "blank" /\ pc = "done"
    /\ notified > 0 /\ processed_emails = 1

\* ------------------------------------------------------ parse_raw_email
Parsed == parsed.kind = "parsed"
ParsedMessage == Parsed /\ raw_email.kind = "message"
FieldNames == {"subject", "from", "to", "body"}

\* C12: for every input (no bytes, an input the message parser rejects,
\* malformed or well-formed messages) parse_raw_email raises nothing and
\* returns a record with exactly the fields subject, from, to and body, each
\* a possibly empty string.
C12_FourStringFields ==
    Parsed => /\ ~parsed.out.raised
              /\ DOMAIN parsed.out.value = FieldNames
              /\ parsed.out.value.subject \in STRING
              /\ parsed.out.value.from \in STRING
              /\ parsed.out.value.to \in STRING
              /\ parsed.out.value.body \in Seq(STRING)

\* app.py's parser has met a From header it cannot decode and has returned
\* the record of four empty strings
C12_Witness ==
    /\ ParsedMessage /\ parser = "app"
    /\ raw_email.From = "bad"
    /\ ~parsed.out.raised /\ parsed.out.value = EmptyParsed

Qualifies(part) == part.content_type = "text/plain" /\ part.disposition # "attachment"

\* position of the first part, in document order, that is plain text and
\* not an attachment; 0 when there is none
RECURSIVE FirstQualifying(_, _)
FirstQualifying(ps, i) ==
    IF i > Len(ps) THEN 0
    ELSE IF Qualifies(ps[i]) THEN i
    ELSE FirstQualifying(ps, i + 1)

\* C13: for a multipart message the body is the decoded payload of the
\* first part, in document order, that is plain text and not an attachment,
\* whatever the other parts are, and it is empty when there is no such part.
C13_BodyFromFirstPlainPart ==
    (ParsedMessage /\ raw_email.multipart) =>
        LET k == FirstQualifying(raw_email.parts, 1)
        IN  IF k = 0 THEN parsed.out.value.body = <<>>
            ELSE Codec(raw_email.parts[k].charset) # "bogus" =>
                   parsed.out.value.body =
                     DecodeBytes(raw_email.parts[k].payload,
                                 Codec(raw_email.parts[k].charset), "replace")

HeadersDecode == "bad" \notin {raw_email.Subject, raw_email.From, raw_email.To}

\* C14: for a non-multipart message whose headers decode and whose charset
\* Python knows, the body is the payload of the sole part decoded in the
\* declared charset (UTF-8 when none is declared) with undecodable bytes
\* replaced, no character added and none removed.
C14_BodyIsDecodedPayload ==
    (ParsedMessage /\ ~raw_email.multipart /\ HeadersDecode
       /\ Codec(raw_email.parts[1].charset) # "bogus") =>
        parsed.out.value.body =
          DecodeBytes(raw_email.parts[1].payload,
                      Codec(raw_email.parts[1].charset), "replace")

\* what C15 expects of one header field
HeaderField(h) == IF MakeHeader(h).raised THEN RawHeader(h) ELSE MakeHeader(h).value

\* C15: when decoding a header fails, its field is the raw header text, the
\* other header fields are still the decoded headers and the body is still
\* the decoded body.
C15_HeaderFailureIsLocal ==
    (ParsedMessage /\ ~HeadersDecode) =>
        /\ parsed.out.value.subject = HeaderField(raw_email.Subject)
        /\ parsed.out.value.from = HeaderField(raw_email.From)
        /\ parsed.out.value.to = HeaderField(raw_email.To)
        /\ (~raw_email.multipart /\ raw_email.parts[1].payload = <<"a">>)
             => parsed.out.value.body = <<"a">>

\* -------------------------------------------------------- the extractor
\* the positions, in span order, of the spans whose label is in labels
RECURSIVE PositionsOf(_, _, _)
PositionsOf(doc, labels, i) ==
    IF i > Len(doc) THEN <<>>
    ELSE IF doc[i] \in labels THEN <<i>> \o PositionsOf(doc, labels, i + 1)
    ELSE PositionsOf(doc, labels, i + 1)

\* C16: in either pipeline the candidates are exactly the spans labelled
\* DATE, TIME or EVENT, one candidate per span and in span order, and no span
\* with another label is a candidate.
C16_OneCandidatePerTemporalSpan ==
    pipeline \in Pipelines =>
        candidates = PositionsOf(doc_ents, {"DATE", "TIME", "EVENT"}, 1)

Computed == window.kind = "window"

\* the slice of radius r around the span, clipped to the document
SliceOfRadius(r) ==
    /\ window.start = (IF span.start - r < 0 THEN 0 ELSE span.start - r)
    /\ window.end = (IF span.end + r > span.len THEN span.len ELSE span.end + r)

\* C17 as stated: in either pipeline the context window is the token slice
\* from max(0, spanStart - 10) to min(documentLength, spanEnd + 10).
C17_WindowRadiusTen == Computed => SliceOfRadius(10)

\* C17, amended: the context window is the token slice from
\* max(0, spanStart - r) to min(documentLength, spanEnd + r), with r = 10 in
\* the dashboard pipeline and r = 3 in the command-line pipeline; it contains
\* the whole span, extends at most 10 tokens before it and at most 10 after
\* it, and lies inside the document.
C17_WindowClippedSlice ==
    Computed =>
        /\ pipeline = "dash" => SliceOfRadius(10)
        /\ pipeline = "cli" => SliceOfRadius(3)
        /\ window.start <= span.start /\ span.end <= window.end
        /\ span.start - window.start <= 10 /\ window.end - span.end <= 10
        /\ 0 <= window.start /\ window.end <= span.len

\* a command-line window around a span with ten or more tokens of document
\* on both sides: neither end is clipped, and the window is three tokens wide
\* on each side
C17_Witness ==
    /\ Computed /\ pipeline = "cli"
    /\ span.start >= 10 /\ span.end + 10 <= span.len
    /\ window.start = span.start - 3 /\ window.end = span.end + 3

\* ---------------------------------------------- format_event_notification
Formatted == notification.kind = "formatted"
Dated == event.datetime.ok

\* whole days from the formatting moment to the event's instant
DaysLeft == (event.datetime.at - clock) \div DayLen

\* C18: the title embeds TODAY when daysUntil is 0, TOMORROW when it is 1,
\* IN N DAYS with N = daysUntil when it is 2 or more, and OVERDUE when it is
\* negative.
C18_TitleUrgencyLabel ==
    (Formatted /\ Dated /\ ~notification.out.raised) =>
        notification.out.value.title.urgency =
            (IF DaysLeft < 0 THEN Label("OVERDUE", 0)
             ELSE IF DaysLeft = 0 THEN Label("TODAY", 0)
             ELSE IF DaysLeft = 1 THEN Label("TOMORROW", 1)
             ELSE Label("IN N DAYS", DaysLeft))

\* the message has a part with this label and this value
HasPart(label, value) ==
    \E i \in 1..Len(notification.out.value.message) :
        /\ notification.out.value.message[i].label = label
        /\ notification.out.value.message[i].value = value

\* C19: for an Event without resolved instant format_event_notification
\* raises nothing and returns a title and a body; the body carries the
\* placeholder "Unknown date" for the date and still contains the context
\* and the original text.
C19_NoInstantStillFormats ==
    (Formatted /\ ~Dated) =>
        /\ ~notification.out.raised
        /\ DOMAIN notification.out.value = {"title", "message"}
        /\ HasPart("When: ", UnknownDate)
        /\ HasPart("Event: ", event.event_context)
        /\ event.original_text # "" => HasPart("Original: ", event.original_text)

\* an Event without instant, with context and original text, formatted
\* under a subject
C19_Witness ==
    /\ Formatted /\ ~Dated
    /\ event.original_text = "Friday" /\ event.event_context # ""
    /\ email_subject # ""
    /\ Len(notification.out.value.message) = 4

\* ---------------------------------------------------------------- C21..C26
\* the deduplication key and the ranking key of a delivered notification
DeliveredKey(d) == <<d.original_text, DateOf(d.datetime)>>
DeliveredRank(d) == <<UrgencyOrder(UrgencyColor(DaysUntil(d.datetime, clock))), d.datetime>>
RankedPair(a, b) ==
    \/ DeliveredRank(a)[1] < DeliveredRank(b)[1]
    \/ DeliveredRank(a)[1] = DeliveredRank(b)[1] /\ DeliveredRank(a)[2] <= DeliveredRank(b)[2]

\* C21: within one scan nothing is delivered before every message of the scan
\* has been processed, no deduplication key is delivered twice, and the
\* notifications follow the ranked order
C21_DeliveryAfterRanking ==
    /\ [][delivered' # delivered => Len(attempted') = Len(messages)]_vars
    /\ [](\A j, k \in 1..Len(delivered) :
            j < k => /\ DeliveredKey(delivered[j]) # DeliveredKey(delivered[k])
                     /\ RankedPair(delivered[j], delivered[k]))

\* C22: a message that was fetched and parsed, whose body is empty and whose
\* subject holds a temporal mention, is analysed
C22_SubjectOnlyMessageAnalysed ==
    \A k \in 1..Len(attempted) :
        ( /\ attempted[k].outcome \notin {"fetch_failed", "parse_failed", "raised"}
          /\ inbox[attempted[k].id].body = ""
          /\ inbox[attempted[k].id].subject # <<>> )
        => attempted[k].outcome = "analysed"

Analysed == SelectSeq(attempted, LAMBDA a : a.outcome = "analysed")
RECURSIVE EventsOf(_)
EventsOf(as) == IF as = <<>> THEN 0 ELSE as[1].events + EventsOf(Tail(as))

\* C23: when the summary of a run is printed, processed_emails is the number
\* of messages fetched, parsed and analysed, total_events_found is the number
\* of events those produced, and processed_emails is at most the number of
\* messages the search returned
C23_SummaryCountsExact ==
    wf = "summary" =>
        /\ processed_emails = Len(Analysed)
        /\ total_events_found = EventsOf(Analysed)
        /\ total_events_found = Len(delivered)
        /\ processed_emails <= Len(messages)

C23_Witness ==
    /\ wf = "summary"
    /\ Len(messages) = 2
    /\ processed_emails = 1
    /\ total_events_found = 2

\* C26: every id the search returned is attempted once, in the order
\* returned, and an iteration that fails to fetch or parse its message leaves
\* the scan running and what was accumulated as it was
C26_FailureDoesNotStopScan ==
    /\ [](\A k \in 1..Len(attempted) : attempted[k].id = messages[k])
    /\ [](wf = "summary" => Len(attempted) = Len(messages))
    /\ [][(/\ Len(attempted') = Len(attempted) + 1
           /\ attempted'[Len(attempted')].outcome # "analysed")
          => UNCHANGED <<wf, delivered, total_events_found, processed_emails>>]_vars

C25_AbsentServiceIsQuiet ==
    (callee \in {"search_emails", "get_raw_email"} /\ result # None /\ args.service = "None") =>
        /\ ~result.raised
        /\ effects = <<>>
        /\ callee = "search_emails" => result.value = <<>>
        /\ callee = "get_raw_email" => result.value = None

C25_Witness ==
    /\ callee = "get_raw_email" /\ args.service = "None" /\ args.api = "raises"
    /\ result = Returns(None)

Configured == args.sender_email # "" /\ args.sender_password # ""
Pressing == SelectSeq(args.events, LAMBDA e : e.urgency \in {"overdue", "urgent", "soon"})

\* C27: the summary email goes out only with sender credentials and at least
\* one event of tier overdue, urgent or soon; it lists exactly those events in
\* ranked order; otherwise send_email_notification returns False without
\* contacting the relay; it never raises
C27_SummaryOnlyPressingEvents ==
    (callee = "send_email_notification" /\ result # None) =>
        /\ ~result.raised
        /\ told = "sent" => result.value
        /\ IF Configured /\ Pressing # <<>>
           THEN /\ effects = <<Effect("smtp", Pressing)>>
                /\ \A k \in 1..Len(effects[1].with) : effects[1].with[k].urgency # "upcoming"
                /\ result.value = (args.smtp = "ok")
           ELSE /\ result.value = FALSE
                /\ effects = <<>>

C27_Witness ==
    /\ callee = "send_email_notification" /\ result = Returns(TRUE) /\ told = "sent"
    /\ Len(args.events) = 2
    /\ Len(effects[1].with) = 1

\* C28: whatever buttons are pressed, the mailbox is searched or fetched
\* only while an authentication has succeeded and has not been logged out,
\* and the event list is shown only after a scan completed under that
\* authentication
C28_MailboxOnlyWhenAuthenticated ==
    /\ did = "search" => (signed_in /\ authenticated /\ service # "None")
    /\ ShowsEvents => (signed_in /\ authenticated /\ scan_login = logins)
    /\ ~signed_in => (~authenticated /\ service = "None" /\ ~scan_complete /\ session_events = <<>>)

C28_Witness ==
    /\ ShowsEvents
    /\ logins = 2
    /\ scan_login = 2

C30_ScheduleRunsUntilException ==
    /\ [](runs = 0 => proc = "start")
    /\ [](last = "raised" => (proc = "exited" /\ exit_status = 1))
    /\ []((~once /\ last \in {"no service", "no messages", "completed"})
            => (proc \in {"run", "sleep"} \/ (proc = "exited" /\ exit_status = 0)))
    /\ [][proc = "exited" => UNCHANGED <<proc, exit_status, runs, sent>>]_vars
    /\ [][(~once /\ proc = "run" /\ last' \in {"no service", "no messages", "completed"})
            => proc' = "sleep"]_vars
    /\ ((~once /\ proc = "sleep" /\ runs < MaxRuns) ~> (proc \in {"run", "exited"}))

C30_Witness ==
    /\ ~once
    /\ runs = 2
    /\ last = "raised"
    /\ proc = "exited"

====
